---- MODULE Spec2Model ----
(***************************************************************************)
(* Model of src/agents/utils.py: safe_run (guarded command execution) and  *)
(* user_log (leveled logging with optional console mirror).                *)
(*                                                                         *)
(* A Python str is a sequence of one-character strings, so that lower(),   *)
(* strip(), split() and join() are computed and not assumed.               *)
(***************************************************************************)
EXTENDS Integers, Sequences, FiniteSets, TLC

VARIABLES
    environ,    \* os.environ: a function from the names that are set to their values
    call,       \* the last call made: the function and its arguments
    outcome,    \* how the last call ended: the value returned or the exception raised
    events,     \* what the last call did, in order: logger calls, subprocess.run, print
    at_return,  \* TRUE while os.environ is as it was during the last call
    earlier     \* how the shell permission check went in the call before the
                \* last one, when that was the same safe_run call with
                \* shell=True: "allowed" or "denied"; "none" otherwise

vars == <<environ, call, outcome, events, at_return, earlier>>

(* ------------------------------------------------------------------ *)
(* String literals of the program                                      *)
(* ------------------------------------------------------------------ *)
s_empty == <<>>
s_true == <<"t", "r", "u", "e">>
s_debug == <<"d", "e", "b", "u", "g">>
s_info == <<"i", "n", "f", "o">>
s_warning == <<"w", "a", "r", "n", "i", "n", "g">>
s_error == <<"e", "r", "r", "o", "r">>
s_critical == <<"c", "r", "i", "t", "i", "c", "a", "l">>
s_Executing == <<"E", "x", "e", "c", "u", "t", "i", "n", "g", ":", " ">>
s_Completed == <<"C", "o", "m", "m", "a", "n", "d", " ", "c", "o", "m", "p", "l", "e", "t", "e", "d", " ", "w", "i", "t", "h", " ", "r", "e", "t", "u", "r", "n", " ", "c", "o", "d", "e", ":", " ">>
s_Failed == <<"C", "o", "m", "m", "a", "n", "d", " ", "f", "a", "i", "l", "e", "d", " ", "w", "i", "t", "h", " ", "r", "e", "t", "u", "r", "n", " ", "c", "o", "d", "e", " ">>
s_Unexpected == <<"U", "n", "e", "x", "p", "e", "c", "t", "e", "d", " ", "e", "r", "r", "o", "r", " ", "r", "u", "n", "n", "i", "n", "g", " ", "c", "o", "m", "m", "a", "n", "d", ":", " ">>
s_colon_sp == <<":", " ">>
s_msg_head == <<"S", "h", "e", "l", "l", " ", "e", "x", "e", "c", "u", "t", "i", "o", "n", " ", "n", "o", "t", " ", "a", "l", "l", "o", "w", "e", "d", ".", " ", "S", "e", "t", " ", "A", "L", "L", "O", "W", "_", "S", "H", "E", "L", "L", "=", "t", "r", "u", "e", " ", "o", "r", " ", "a", "d", "d", " ", "'">>
s_msg_tail == <<"'", " ", "t", "o", " ", "A", "L", "L", "O", "W", "E", "D", "_", "S", "H", "E", "L", "L", "_", "C", "O", "M", "M", "A", "N", "D", "S", " ", "e", "n", "v", "i", "r", "o", "n", "m", "e", "n", "t", " ", "v", "a", "r", "i", "a", "b", "l", "e", ".">>
s_pipe == <<" ", "|", " ">>

(* ------------------------------------------------------------------ *)
(* Input values: environment values, commands, messages                *)
(* ------------------------------------------------------------------ *)
s_True == <<"T", "r", "u", "e">>
s_TRUE == <<"T", "R", "U", "E">>
s_false == <<"f", "a", "l", "s", "e">>
s_echo_ls == <<"e", "c", "h", "o", ",", "l", "s">>
s_comma == <<",">>
s_sp_comma_echo == <<" ", ",", " ", "e", "c", "h", "o">>
s_ls_sp_rm == <<" ", "l", "s", " ", ",", "r", "m", " ", "-", "r", "f", " ", "/">>
s_echo_test == <<"e", "c", "h", "o", " ", "t", "e", "s", "t">>
s_rm_rf == <<"r", "m", " ", "-", "r", "f", " ", "/">>
s_ls == <<"l", "s">>
s_ws == <<" ", "\t">>
s_lead_ls == <<"\t", "l", "s", " ", "-", "l">>
s_echo == <<"e", "c", "h", "o">>
s_hello == <<"h", "e", "l", "l", "o">>
s_enoent == <<"E", "N", "O", "E", "N", "T">>
s_trace == <<"t", "r", "a", "c", "e">>
s_ERROR == <<"E", "R", "R", "O", "R">>
s_Task == <<"T", "a", "s", "k", " ", "c", "o", "m", "p", "l", "e", "t", "e", "d">>
s_task_id == <<"t", "a", "s", "k", "_", "i", "d">>
s_status == <<"s", "t", "a", "t", "u", "s">>
s_success == <<"s", "u", "c", "c", "e", "s", "s">>
s_123 == <<"1", "2", "3">>
s_duration_ms == <<"d", "u", "r", "a", "t", "i", "o", "n", "_", "m", "s">>

(* ------------------------------------------------------------------ *)
(* Python built-ins used by the program                                *)
(* ------------------------------------------------------------------ *)
Whitespace == {" ", "\t"}

lower_char(c) ==
    CASE c = "A" -> "a" [] c = "B" -> "b" [] c = "C" -> "c" [] c = "D" -> "d"
      [] c = "E" -> "e" [] c = "F" -> "f" [] c = "G" -> "g" [] c = "H" -> "h"
      [] c = "I" -> "i" [] c = "J" -> "j" [] c = "K" -> "k" [] c = "L" -> "l"
      [] c = "M" -> "m" [] c = "N" -> "n" [] c = "O" -> "o" [] c = "P" -> "p"
      [] c = "Q" -> "q" [] c = "R" -> "r" [] c = "S" -> "s" [] c = "T" -> "t"
      [] c = "U" -> "u" [] c = "V" -> "v" [] c = "W" -> "w" [] c = "X" -> "x"
      [] c = "Y" -> "y" [] c = "Z" -> "z"
      [] OTHER -> c

\* str.lower()
lower(s) == [i \in 1..Len(s) |-> lower_char(s[i])]

RECURSIVE lstrip(_)
lstrip(s) == IF s # <<>> /\ Head(s) \in Whitespace THEN lstrip(Tail(s)) ELSE s

RECURSIVE rstrip(_)
rstrip(s) ==
    IF s # <<>> /\ s[Len(s)] \in Whitespace
    THEN rstrip(SubSeq(s, 1, Len(s) - 1)) ELSE s

\* str.strip()
strip(s) == rstrip(lstrip(s))

\* str.split(sep): the pieces between occurrences of sep; "" gives [""]
RECURSIVE split_sep(_, _)
split_sep(s, sep) ==
    IF \E i \in 1..Len(s) : s[i] = sep
    THEN LET i == CHOOSE j \in 1..Len(s) :
                      s[j] = sep /\ \A k \in 1..(j - 1) : s[k] # sep
         IN  <<SubSeq(s, 1, i - 1)>> \o split_sep(SubSeq(s, i + 1, Len(s)), sep)
    ELSE <<s>>

\* str.split(): the maximal runs of non-whitespace; "" and " " give []
RECURSIVE split(_)
split(s) ==
    LET t == lstrip(s)
    IN  IF t = <<>> THEN <<>>
        ELSE LET n == CHOOSE j \in 1..Len(t) :
                          /\ \A k \in 1..j : t[k] \notin Whitespace
                          /\ (j = Len(t) \/ t[j + 1] \in Whitespace)
             IN  <<SubSeq(t, 1, n)>> \o split(SubSeq(t, n + 1, Len(t)))

\* sep.join(list)
RECURSIVE join(_, _)
join(sep, l) ==
    IF l = <<>> THEN <<>>
    ELSE IF Len(l) = 1 THEN l[1]
    ELSE l[1] \o sep \o join(sep, Tail(l))

digit(d) ==
    CASE d = 0 -> "0" [] d = 1 -> "1" [] d = 2 -> "2" [] d = 3 -> "3"
      [] d = 4 -> "4" [] d = 5 -> "5" [] d = 6 -> "6" [] d = 7 -> "7"
      [] d = 8 -> "8" [] d = 9 -> "9"

\* str(n) of an int
RECURSIVE str_int(_)
str_int(n) ==
    IF n < 0 THEN <<"-">> \o str_int(0 - n)
    ELSE IF n < 10 THEN <<digit(n)>>
    ELSE str_int(n \div 10) \o <<digit(n % 10)>>

\* x in list
in_list(x, l) == \E i \in 1..Len(l) : l[i] = x

\* os.environ.get(key, default)
environ_get(e, key, default) == IF key \in DOMAIN e THEN e[key] ELSE default

(* ------------------------------------------------------------------ *)
(* safe_run                                                            *)
(* ------------------------------------------------------------------ *)
\* cmd: Union[str, List[str]]
StrCmd(s) == [type |-> "str", s |-> s]
ListCmd(argv) == [type |-> "list", argv |-> argv]
isinstance_str(cmd) == cmd.type = "str"

\* Mutants of allow_shell: the default taken as "true"; the value not lowercased
allow_shell_default_true(e) ==
    lower(environ_get(e, "ALLOW_SHELL", s_true)) = s_true
allow_shell_no_lower(e) == environ_get(e, "ALLOW_SHELL", s_empty) = s_true

\* allow_shell = os.environ.get("ALLOW_SHELL", "").lower() == "true"
allow_shell(e) == lower(environ_get(e, "ALLOW_SHELL", s_empty)) = s_true

\* Mutants of allowed_list: empty entries kept; entries not trimmed
allowed_list_keep_empty(e) ==
    LET parts == split_sep(environ_get(e, "ALLOWED_SHELL_COMMANDS", s_empty), ",")
    IN  [i \in 1..Len(parts) |-> strip(parts[i])]
allowed_list_no_strip(e) ==
    LET parts == split_sep(environ_get(e, "ALLOWED_SHELL_COMMANDS", s_empty), ",")
    IN  SelectSeq(parts, LAMBDA c : strip(c) # <<>>)

\* allowed_list = [c.strip() for c in allowed_commands.split(",") if c.strip()]
allowed_list(e) ==
    LET allowed_commands == environ_get(e, "ALLOWED_SHELL_COMMANDS", s_empty)
        parts == split_sep(allowed_commands, ",")
        stripped == [i \in 1..Len(parts) |-> strip(parts[i])]
    IN  SelectSeq(stripped, LAMBDA c : c # <<>>)

\* cmd_name = cmd.split()[0] if isinstance(cmd, str) else ""
\* (defined when cmd.split() is not empty; the caller raises IndexError otherwise)
cmd_name(cmd) == IF isinstance_str(cmd) THEN split(cmd.s)[1] ELSE s_empty

PermissionError(name) ==
    [kind |-> "raised", exc |-> "PermissionError",
     message |-> s_msg_head \o name \o s_msg_tail]

IndexError == [kind |-> "raised", exc |-> "IndexError"]

Pass == [kind |-> "pass"]

\* Mutant of check_shell: the check made whether or not shell is requested
check_shell_always(cmd, shell, e) ==
    IF allow_shell(e) THEN Pass
    ELSE IF isinstance_str(cmd) /\ split(cmd.s) = <<>> THEN IndexError
    ELSE IF ~in_list(cmd_name(cmd), allowed_list(e))
         THEN PermissionError(cmd_name(cmd))
         ELSE Pass

\* The shell permission check (lines 52-67): Pass, or the exception it raises
check_shell(cmd, shell, e) ==
    IF ~shell THEN Pass
    ELSE IF allow_shell(e) THEN Pass
    ELSE LET allowed == allowed_list(e)
         IN  IF isinstance_str(cmd) /\ split(cmd.s) = <<>> THEN IndexError
             ELSE IF ~in_list(cmd_name(cmd), allowed)
                  THEN PermissionError(cmd_name(cmd))
                  ELSE Pass

\* cmd_str = cmd if isinstance(cmd, str) else " ".join(cmd)
cmd_str(cmd) == IF isinstance_str(cmd) THEN cmd.s ELSE join(<<" ">>, cmd.argv)

LogEvent(method, line) == [kind |-> "log", method |-> method, line |-> line]

\* The call of subprocess.run, with what the host did with the command
RunEvent(cmd, check, capture_output, text, shell, proc) ==
    [kind |-> "subprocess.run", args |-> cmd, check |-> check,
     capture_output |-> capture_output, text |-> text, shell |-> shell,
     proc |-> proc]

\* What the host does with the command: the process is not created and
\* subprocess.run raises (an OSError such as a missing executable; whatever it
\* is, safe_run catches it as Exception), or it runs and exits with a code.
MaxExit == 2
ProcOutcomes ==
    {[spawned |-> FALSE, error |-> s_enoent]}
        \cup {[spawned |-> TRUE, returncode |-> rc] : rc \in 0..MaxExit}

\* Mutant of subprocess_run: check=check not handed on (check defaults to False)
subprocess_run_unchecked(cmd, check, capture_output, text, shell, proc) ==
    IF ~proc.spawned
    THEN [kind |-> "raised", exc |-> "Exception", message |-> proc.error]
    ELSE [kind |-> "returned",
          value |-> [args |-> cmd, returncode |-> proc.returncode,
                     captured |-> capture_output, text |-> text]]

\* subprocess.run(cmd, check=check, capture_output=capture_output, text=text,
\*                shell=shell) when the host answers proc
subprocess_run(cmd, check, capture_output, text, shell, proc) ==
    IF ~proc.spawned
    THEN [kind |-> "raised", exc |-> "Exception", message |-> proc.error]
    ELSE IF check /\ proc.returncode # 0
    THEN [kind |-> "raised", exc |-> "CalledProcessError",
          returncode |-> proc.returncode, cmd |-> cmd]
    ELSE [kind |-> "returned",
          value |-> [args |-> cmd, returncode |-> proc.returncode,
                     captured |-> capture_output, text |-> text]]

\* The try block: the outcome of the call and the events after the first trace
try_run(cmd, check, capture_output, text, shell, proc) ==
    LET r == subprocess_run(cmd, check, capture_output, text, shell, proc)
        ran == RunEvent(cmd, check, capture_output, text, shell, proc)
    IN  IF r.kind = "returned"
        THEN [outcome |-> r,
              events |-> <<ran, LogEvent("debug",
                                 s_Completed \o str_int(r.value.returncode))>>]
        ELSE IF r.exc = "CalledProcessError"
        THEN [outcome |-> r,
              events |-> <<ran, LogEvent("error",
                                 s_Failed \o str_int(r.returncode)
                                     \o s_colon_sp \o cmd_str(cmd))>>]
        ELSE [outcome |-> r,
              events |-> <<ran, LogEvent("error", s_Unexpected \o r.message)>>]

\* Mutant of safe_run: the command is traced after the run, not before it
safe_run_trace_late(cmd, check, capture_output, text, shell, e, proc) ==
    LET perm == check_shell(cmd, shell, e)
    IN  IF perm.kind = "raised"
        THEN [outcome |-> perm, events |-> <<>>]
        ELSE LET r == try_run(cmd, check, capture_output, text, shell, proc)
             IN  [outcome |-> r.outcome,
                  events |-> r.events
                      \o <<LogEvent("debug", s_Executing \o cmd_str(cmd))>>]

\* safe_run(cmd, check, capture_output, text, shell) under environment e
safe_run(cmd, check, capture_output, text, shell, e, proc) ==
    LET perm == check_shell(cmd, shell, e)
    IN  IF perm.kind = "raised"
        THEN [outcome |-> perm, events |-> <<>>]
        ELSE LET r == try_run(cmd, check, capture_output, text, shell, proc)
             IN  [outcome |-> r.outcome,
                  events |-> <<LogEvent("debug", s_Executing \o cmd_str(cmd))>>
                                 \o r.events]

(* ------------------------------------------------------------------ *)
(* user_log                                                            *)
(* ------------------------------------------------------------------ *)
\* A keyword argument k=v; v is a str or an int
StrVal(s) == [type |-> "str", s |-> s]
IntVal(n) == [type |-> "int", n |-> n]
KwArg(k, v) == [k |-> k, v |-> v]

\* str(v), as the f-string {v} formats it
str(v) == IF v.type = "str" THEN v.s ELSE str_int(v.n)

\* Mutant of log_method: the level looked up as given, not lowercased
log_method_no_lower(level) ==
    CASE level = s_debug -> "debug"
      [] level = s_info -> "info"
      [] level = s_warning -> "warning"
      [] level = s_error -> "error"
      [] level = s_critical -> "critical"
      [] OTHER -> "info"

\* log_method = log_methods.get(level.lower(), logger.info)
log_method(level) ==
    LET l == lower(level)
    IN  CASE l = s_debug -> "debug"
          [] l = s_info -> "info"
          [] l = s_warning -> "warning"
          [] l = s_error -> "error"
          [] l = s_critical -> "critical"
          [] OTHER -> "info"

\* Mutant of extra_context: the pairs joined last key first
extra_context_reversed(kwargs) ==
    join(s_pipe, [i \in 1..Len(kwargs) |->
                     kwargs[Len(kwargs) + 1 - i].k \o <<"=">>
                         \o str(kwargs[Len(kwargs) + 1 - i].v)])

\* extra_context = " | ".join(f"{k}={v}" for k, v in kwargs.items())
extra_context(kwargs) ==
    join(s_pipe, [i \in 1..Len(kwargs) |->
                     kwargs[i].k \o <<"=">> \o str(kwargs[i].v)])

\* full_message = f"{message} [{extra_context}]" if kwargs else message
full_message(message, kwargs) ==
    IF kwargs # <<>>
    THEN message \o <<" ", "[">> \o extra_context(kwargs) \o <<"]">>
    ELSE message

\* os.environ.get("LOG_TO_STDOUT", "").lower() == "true"
log_to_stdout(e) == lower(environ_get(e, "LOG_TO_STDOUT", s_empty)) = s_true

\* Mutant of output: the stream chosen by the stderr flag alone
output_flag_only(stderr, level) == IF stderr THEN "stderr" ELSE "stdout"

\* output = sys.stderr if stderr or level.lower() in ("error", "critical")
\*          else sys.stdout
output(stderr, level) ==
    IF stderr \/ lower(level) \in {s_error, s_critical}
    THEN "stderr" ELSE "stdout"

\* print(text, file=file): the text and a newline are written to the stream
PrintEvent(text, file) ==
    [kind |-> "print", file |-> file, text |-> text \o <<"\n">>]

\* user_log(message, level, stderr, **kwargs) under environment e
user_log(message, level, stderr, kwargs, e) ==
    LET line == full_message(message, kwargs)
    IN  [outcome |-> [kind |-> "returned", value |-> "None"],
         events |-> <<LogEvent(log_method(level), line)>>
                        \o (IF log_to_stdout(e)
                            THEN <<PrintEvent(line, output(stderr, level))>>
                            ELSE <<>>)]

(* ------------------------------------------------------------------ *)
(* The state machine                                                   *)
(* ------------------------------------------------------------------ *)
PolicyNames == {"ALLOW_SHELL", "ALLOWED_SHELL_COMMANDS"}
LogNames == {"LOG_TO_STDOUT"}

EnvValues(key) ==
    CASE key = "ALLOW_SHELL" -> {s_true, s_True, s_TRUE, s_false}
      [] key = "ALLOWED_SHELL_COMMANDS" ->
             {s_echo_ls, s_empty, s_comma, s_sp_comma_echo, s_ls_sp_rm}
      [] key = "LOG_TO_STDOUT" -> {s_true, s_TRUE, s_false}

Commands ==
    {StrCmd(s) : s \in {s_echo_test, s_rm_rf, s_ls, s_empty, s_ws, s_lead_ls}}
        \cup {ListCmd(a) : a \in {<<s_echo, s_hello>>, <<>>}}

Messages == {s_Task, s_empty}
Levels == {s_debug, s_info, s_warning, s_error, s_critical, s_ERROR, s_trace}
MaxInt == 12
Contexts ==
    {<<>>,
     <<KwArg(s_task_id, StrVal(s_123)), KwArg(s_status, StrVal(s_success))>>,
     <<KwArg(s_status, StrVal(s_success)), KwArg(s_task_id, StrVal(s_123))>>}
        \cup {<<KwArg(s_duration_ms, IntVal(n))>> : n \in {0, MaxInt}}

Init ==
    /\ environ = <<>>
    /\ call = [fn |-> "none"]
    /\ outcome = [kind |-> "none"]
    /\ events = <<>>
    /\ at_return = FALSE
    /\ earlier = "none"

\* os.environ[key] = value
SetEnv(key, value) ==
    /\ environ' = [k \in DOMAIN environ \cup {key} |->
                      IF k = key THEN value ELSE environ[k]]
    /\ at_return' = FALSE
    /\ UNCHANGED <<call, outcome, events, earlier>>

\* del os.environ[key]
DelEnv(key) ==
    /\ key \in DOMAIN environ
    /\ environ' = [k \in DOMAIN environ \ {key} |-> environ[k]]
    /\ at_return' = FALSE
    /\ UNCHANGED <<call, outcome, events, earlier>>

\* The call record of safe_run(cmd, check, capture_output, text, shell)
SafeRunCall(cmd, check, capture_output, text, shell) ==
    [fn |-> "safe_run", cmd |-> cmd, check |-> check,
     capture_output |-> capture_output, text |-> text, shell |-> shell]

\* How the permission check of the last call went, if this call repeats it
Earlier(c) ==
    IF c.shell /\ call = c
    THEN IF \E i \in 1..Len(events) : events[i].kind = "subprocess.run"
         THEN "allowed" ELSE "denied"
    ELSE "none"

\* Mutant of SafeRun: a permission once granted to a call is remembered, and
\* the same call skips the check the next time
SafeRun_cached(cmd, check, capture_output, text, shell, proc) ==
    LET c == SafeRunCall(cmd, check, capture_output, text, shell)
        r == IF Earlier(c) = "allowed"
             THEN safe_run(cmd, check, capture_output, text, FALSE, environ, proc)
             ELSE safe_run(cmd, check, capture_output, text, shell, environ, proc)
    IN  /\ call' = c
        /\ outcome' = r.outcome
        /\ events' = r.events
        /\ at_return' = TRUE
        /\ earlier' = Earlier(c)
        /\ UNCHANGED environ

SafeRun(cmd, check, capture_output, text, shell, proc) ==
    LET c == SafeRunCall(cmd, check, capture_output, text, shell)
        r == safe_run(cmd, check, capture_output, text, shell, environ, proc)
    IN  /\ call' = c
        /\ outcome' = r.outcome
        /\ events' = r.events
        /\ at_return' = TRUE
        /\ earlier' = Earlier(c)
        /\ UNCHANGED environ

UserLog(message, level, stderr, kwargs) ==
    LET r == user_log(message, level, stderr, kwargs, environ)
    IN  /\ call' = [fn |-> "user_log", message |-> message, level |-> level,
                    stderr |-> stderr, kwargs |-> kwargs]
        /\ outcome' = r.outcome
        /\ events' = r.events
        /\ at_return' = TRUE
        /\ earlier' = "none"
        /\ UNCHANGED environ

\* The guarded executor: changes of its two policy variables and calls of
\* safe_run.  capture_output and text are handed to subprocess.run as they come
\* and decide no branch of safe_run: the calls explored leave them at their
\* defaults.
Next ==
    \/ \E key \in PolicyNames : \E value \in EnvValues(key) : SetEnv(key, value)
    \/ \E key \in PolicyNames : DelEnv(key)
    \/ \E cmd \in Commands, check \in BOOLEAN, shell \in BOOLEAN,
          proc \in ProcOutcomes :
           SafeRun(cmd, check, FALSE, TRUE, shell, proc)

Spec == Init /\ [][Next]_vars

\* The logger facade: changes of LOG_TO_STDOUT and calls of user_log
NextLog ==
    \/ \E key \in LogNames : \E value \in EnvValues(key) : SetEnv(key, value)
    \/ \E key \in LogNames : DelEnv(key)
    \/ \E message \in Messages, level \in Levels, stderr \in BOOLEAN,
          kwargs \in Contexts :
           UserLog(message, level, stderr, kwargs)

SpecLog == Init /\ [][NextLog]_vars

(* ------------------------------------------------------------------ *)
(* What the properties speak of                                        *)
(* ------------------------------------------------------------------ *)
\* The state is the one the last call, a safe_run call, ended in
AfterSafeRun == at_return /\ call.fn = "safe_run"

\* The state is the one the last call, a user_log call, ended in
AfterUserLog == at_return /\ call.fn = "user_log"

RunEvents == {i \in 1..Len(events) : events[i].kind = "subprocess.run"}
LogEvents == {i \in 1..Len(events) : events[i].kind = "log"}
PrintEvents == {i \in 1..Len(events) : events[i].kind = "print"}

Raised(exc) == outcome.kind = "raised" /\ outcome.exc = exc

\* ALLOW_SHELL, lowercased, is "true"
AllowShellTrue ==
    "ALLOW_SHELL" \in DOMAIN environ /\ lower(environ["ALLOW_SHELL"]) = s_true

\* The entries of ALLOWED_SHELL_COMMANDS: split on commas, each one trimmed
AllowedEntries ==
    LET raw == IF "ALLOWED_SHELL_COMMANDS" \in DOMAIN environ
               THEN environ["ALLOWED_SHELL_COMMANDS"] ELSE <<>>
        parts == split_sep(raw, ",")
    IN  {strip(parts[i]) : i \in 1..Len(parts)}

\* The command of the last call is a string with a first token
HasFirstToken == call.cmd.type = "str" /\ split(call.cmd.s) # <<>>

\* ... and that token is one of the entries
FirstTokenAllowed == HasFirstToken /\ split(call.cmd.s)[1] \in AllowedEntries

PolicyUnset ==
    /\ "ALLOW_SHELL" \notin DOMAIN environ
    /\ "ALLOWED_SHELL_COMMANDS" \notin DOMAIN environ

(* ------------------------------------------------------------------ *)
(* Properties of safe_run, under Spec                                  *)
(* ------------------------------------------------------------------ *)
\* C1: whenever a call of safe_run has handed a command to subprocess.run with
\* shell=True, then at that call ALLOW_SHELL lowercased was "true", or the
\* command was a string whose first whitespace-delimited token is one of the
\* trimmed, comma-split entries of ALLOWED_SHELL_COMMANDS.
C1_ShellSpawnAuthorized ==
    AfterSafeRun /\ (\E i \in RunEvents : events[i].shell)
        => AllowShellTrue \/ FirstTokenAllowed

\* C1 witness: a shell command was spawned on the strength of
\* ALLOWED_SHELL_COMMANDS alone
C1_Witness ==
    /\ AfterSafeRun /\ call.shell
    /\ \E i \in RunEvents : events[i].shell /\ events[i].proc.spawned
    /\ ~AllowShellTrue
    /\ FirstTokenAllowed

\* C2: with ALLOW_SHELL and ALLOWED_SHELL_COMMANDS both unset, every call with
\* shell=True ends in PermissionError and hands nothing to subprocess.run.
C2_UnsetPolicyDenies ==
    AfterSafeRun /\ call.shell /\ PolicyUnset
        => Raised("PermissionError") /\ RunEvents = {}

\* C3: a list-form command with shell=True, while ALLOW_SHELL lowercased is not
\* "true", ends in PermissionError and spawns nothing, whatever
\* ALLOWED_SHELL_COMMANDS holds.
C3_ListFormFailsClosed ==
    AfterSafeRun /\ call.shell /\ call.cmd.type = "list" /\ ~AllowShellTrue
        => Raised("PermissionError") /\ events = <<>>

\* C3 witness: a list-form shell call was denied although
\* ALLOWED_SHELL_COMMANDS has an empty entry
C3_Witness ==
    /\ AfterSafeRun /\ call.shell /\ call.cmd.type = "list" /\ ~AllowShellTrue
    /\ <<>> \in AllowedEntries
    /\ "ALLOWED_SHELL_COMMANDS" \in DOMAIN environ
    /\ Raised("PermissionError")

\* C4: with shell=True and ALLOW_SHELL not "true", a string command is handed
\* to subprocess.run if and only if its first whitespace-delimited token is one
\* of the trimmed, comma-split entries of ALLOWED_SHELL_COMMANDS; a string
\* command with a first token that is not one of them ends in PermissionError.
C4_AllowedIffFirstToken ==
    AfterSafeRun /\ call.shell /\ call.cmd.type = "str" /\ ~AllowShellTrue
        => /\ (RunEvents # {}) <=> FirstTokenAllowed
           /\ HasFirstToken /\ ~FirstTokenAllowed
                  => Raised("PermissionError") /\ events = <<>>

\* C4 witness: "rm -rf /" was denied under ALLOWED_SHELL_COMMANDS="echo,ls"
C4_Witness ==
    /\ AfterSafeRun /\ call.shell /\ call.cmd = StrCmd(s_rm_rf)
    /\ "ALLOW_SHELL" \notin DOMAIN environ
    /\ "ALLOWED_SHELL_COMMANDS" \in DOMAIN environ
    /\ environ["ALLOWED_SHELL_COMMANDS"] = s_echo_ls
    /\ Raised("PermissionError")

\* C5: with shell=True and ALLOW_SHELL lowercased equal to "true", no call ends
\* in PermissionError: every command, string or list, is handed to
\* subprocess.run with shell=True, whatever ALLOWED_SHELL_COMMANDS holds.
C5_AllowShellAuthorizesAll ==
    AfterSafeRun /\ call.shell /\ AllowShellTrue
        => /\ ~Raised("PermissionError")
           /\ \E i \in RunEvents : events[i].shell /\ events[i].args = call.cmd

\* C5 witness: a list-form command was spawned through the shell under
\* ALLOW_SHELL="True"
C5_Witness ==
    /\ AfterSafeRun /\ call.shell /\ call.cmd.type = "list"
    /\ "ALLOW_SHELL" \in DOMAIN environ /\ environ["ALLOW_SHELL"] = s_True
    /\ \E i \in RunEvents : events[i].shell /\ events[i].proc.spawned

\* C6: a list-form command with shell=False meets no policy check: the call
\* never ends in the policy's PermissionError and always hands the argument
\* vector to subprocess.run without a shell, whatever ALLOW_SHELL and
\* ALLOWED_SHELL_COMMANDS hold.
C6_ListNoShellUnchecked ==
    AfterSafeRun /\ ~call.shell /\ call.cmd.type = "list"
        => /\ ~Raised("PermissionError")
           /\ \E i \in RunEvents : ~events[i].shell /\ events[i].args = call.cmd

\* C6 witness: an argument vector ran without a shell while both policy
\* variables were set and neither authorized anything
C6_Witness ==
    /\ AfterSafeRun /\ ~call.shell /\ call.cmd.type = "list"
    /\ DOMAIN environ = PolicyNames
    /\ ~AllowShellTrue
    /\ AllowedEntries = {<<>>}
    /\ \E i \in RunEvents : ~events[i].shell /\ events[i].proc.spawned

\* C7: when the spawned process exits non-zero, check=True ends the call in
\* CalledProcessError carrying that exit code and the command, and check=False
\* returns a result with that exit code; exit code 0 returns the result under
\* either value of check.
C7_CheckDecidesNonZeroExit ==
    call.fn = "safe_run"
        => \A i \in RunEvents :
               events[i].proc.spawned
                   => LET rc == events[i].proc.returncode
                      IN  IF rc # 0 /\ call.check
                          THEN /\ Raised("CalledProcessError")
                               /\ outcome.returncode = rc
                               /\ outcome.cmd = call.cmd
                          ELSE /\ outcome.kind = "returned"
                               /\ outcome.value.returncode = rc
                               /\ outcome.value.args = call.cmd

\* C7 witness: an authorized shell command exited non-zero under check=True
C7_Witness ==
    /\ call.fn = "safe_run" /\ call.shell /\ call.check
    /\ \E i \in RunEvents :
           events[i].proc.spawned /\ events[i].proc.returncode # 0
    /\ Raised("CalledProcessError")

\* C8: every call of safe_run ends in one of four outcomes: a returned result,
\* PermissionError with nothing spawned, CalledProcessError after a non-zero
\* exit under check=True, or the error of a process that could not be created.
C8_OutcomeInTaxonomy ==
    call.fn = "safe_run"
        => \/ outcome.kind = "returned" /\ Cardinality(RunEvents) = 1
           \/ Raised("PermissionError") /\ RunEvents = {}
           \/ /\ Raised("CalledProcessError")
              /\ call.check
              /\ Cardinality(RunEvents) = 1
              /\ \E i \in RunEvents :
                     events[i].proc.spawned /\ events[i].proc.returncode # 0
           \/ /\ Raised("Exception")
              /\ Cardinality(RunEvents) = 1
              /\ \E i \in RunEvents : ~events[i].proc.spawned

(* ------------------------------------------------------------------ *)
(* Properties of user_log, under SpecLog                               *)
(* ------------------------------------------------------------------ *)
\* LOG_TO_STDOUT, lowercased, is "true"
LogToStdoutTrue ==
    "LOG_TO_STDOUT" \in DOMAIN environ
        /\ lower(environ["LOG_TO_STDOUT"]) = s_true

\* The severity each level of Levels stands for
SeverityOfLevel ==
    CASE call.level = s_debug -> "debug"
      [] call.level = s_info -> "info"
      [] call.level = s_warning -> "warning"
      [] call.level = s_error -> "error"
      [] call.level = s_critical -> "critical"
      [] call.level = s_ERROR -> "error"
      [] call.level = s_trace -> "info"

\* C9: every call of user_log hands exactly one record to the logger, by the
\* method its lowercased level names (info when it names none of the five),
\* whether or not LOG_TO_STDOUT is set; a call with level "trace" does exactly
\* what the same call with level "info" does.
C9_OneRecordBySeverity ==
    call.fn = "user_log"
        => /\ Cardinality(LogEvents) = 1
           /\ \A i \in LogEvents : events[i].method = SeverityOfLevel
           /\ at_return /\ call.level = s_trace
                  => events = user_log(call.message, s_info, call.stderr,
                                       call.kwargs, environ).events

\* C9 witness: a mirrored call with level "trace" went to logger.info
C9_Witness ==
    /\ AfterUserLog /\ call.level = s_trace /\ LogToStdoutTrue
    /\ \E i \in LogEvents : events[i].method = "info"
    /\ PrintEvents # {}

\* C10: the console mirror happens if and only if LOG_TO_STDOUT lowercased is
\* "true" at the call; it writes the line handed to the logger, once, to one
\* stream: stderr if the stderr flag is set or the severity is error or
\* critical, stdout otherwise.
C10_MirrorRouting ==
    AfterUserLog
        => /\ (PrintEvents # {}) <=> LogToStdoutTrue
           /\ Cardinality(PrintEvents) <= 1
           /\ \A i \in PrintEvents :
                  \E j \in LogEvents :
                      /\ j < i
                      /\ events[i].text = events[j].line \o <<"\n">>
                      /\ events[i].file =
                             IF call.stderr
                                    \/ events[j].method \in {"error", "critical"}
                             THEN "stderr" ELSE "stdout"

\* C10 witness: under LOG_TO_STDOUT="TRUE" a call with level "ERROR" and no
\* stderr flag wrote to stderr
C10_Witness ==
    /\ AfterUserLog /\ call.level = s_ERROR /\ ~call.stderr
    /\ "LOG_TO_STDOUT" \in DOMAIN environ /\ environ["LOG_TO_STDOUT"] = s_TRUE
    /\ \E i \in PrintEvents : events[i].file = "stderr"

\* The text a context of Contexts adds to the message, written out
ContextSuffix ==
    CASE call.kwargs = <<>> -> <<>>
      [] call.kwargs = <<KwArg(s_task_id, StrVal(s_123)),
                         KwArg(s_status, StrVal(s_success))>> ->
             <<" ", "[", "t", "a", "s", "k", "_", "i", "d", "=", "1", "2", "3", " ", "|", " ", "s", "t", "a", "t", "u", "s", "=", "s", "u", "c", "c", "e", "s", "s", "]">>
      [] call.kwargs = <<KwArg(s_status, StrVal(s_success)),
                         KwArg(s_task_id, StrVal(s_123))>> ->
             <<" ", "[", "s", "t", "a", "t", "u", "s", "=", "s", "u", "c", "c", "e", "s", "s", " ", "|", " ", "t", "a", "s", "k", "_", "i", "d", "=", "1", "2", "3", "]">>
      [] Len(call.kwargs) = 1 /\ call.kwargs[1].v.type = "int" ->
             LET n == call.kwargs[1].v.n
             IN  <<" ", "[", "d", "u", "r", "a", "t", "i", "o", "n", "_", "m", "s", "=">>
                     \o (IF n < 10 THEN <<digit(n)>>
                         ELSE <<digit(n \div 10), digit(n % 10)>>)
                     \o <<"]">>

\* C11: the line handed to the logger is the message itself when the context
\* is empty, and otherwise the message, one space and the bracketed key=value
\* pairs joined by " | " in the order the context gives them, one pair per key.
C11_FinalLine ==
    call.fn = "user_log"
        => /\ LogEvents # {}
           /\ \A i \in LogEvents :
                  /\ events[i].line = call.message \o ContextSuffix
                  /\ call.kwargs = <<>> => events[i].line = call.message

\* C11 witness: "Task completed" with task_id="123", status="success" gave
\* "Task completed [task_id=123 | status=success]"
C11_Witness ==
    /\ call.fn = "user_log"
    /\ call.message = s_Task
    /\ call.kwargs = <<KwArg(s_task_id, StrVal(s_123)),
                       KwArg(s_status, StrVal(s_success))>>
    /\ \E i \in LogEvents :
           events[i].line =
               <<"T", "a", "s", "k", " ", "c", "o", "m", "p", "l", "e", "t", "e", "d", " ", "[", "t", "a", "s", "k", "_", "i", "d", "=", "1", "2", "3", " ", "|", " ", "s", "t", "a", "t", "u", "s", "=", "s", "u", "c", "c", "e", "s", "s", "]">>

(* ------------------------------------------------------------------ *)
(* Properties of safe_run over sequences of calls, under Spec          *)
(* ------------------------------------------------------------------ *)
\* The environment, as it is now, authorizes the shell use of the last call
AuthorizedNow == AllowShellTrue \/ FirstTokenAllowed

\* C12: whether a shell=True call is let through to subprocess.run depends on
\* ALLOW_SHELL and ALLOWED_SHELL_COMMANDS as they are at that call and on
\* nothing before it: a call made after the authorization was revoked raises
\* and spawns nothing although the same call was let through before, and a
\* call made after it was granted is let through although the same call was
\* refused before.
C12_DecisionFromCurrentEnv ==
    AfterSafeRun /\ call.shell
        => /\ (RunEvents # {}) <=> AuthorizedNow
           /\ earlier = "allowed" /\ ~AuthorizedNow
                  => RunEvents = {} /\ outcome.kind = "raised"
           /\ earlier = "denied" /\ AuthorizedNow => RunEvents # {}

\* C12 witness: the same command was let through by the call before, the
\* authorization was then revoked, and this call ended in PermissionError
C12_Witness ==
    /\ AfterSafeRun /\ call.shell
    /\ earlier = "allowed"
    /\ ~AuthorizedNow
    /\ Raised("PermissionError") /\ RunEvents = {}

\* The command of the last call as one string: the string itself, or the
\* tokens of the argument vector with a space between them
CommandText ==
    IF call.cmd.type = "str" THEN call.cmd.s
    ELSE CASE Len(call.cmd.argv) = 0 -> <<>>
           [] Len(call.cmd.argv) = 1 -> call.cmd.argv[1]
           [] Len(call.cmd.argv) = 2 ->
                  call.cmd.argv[1] \o <<" ">> \o call.cmd.argv[2]

\* An exit code below 100 in decimal
ExitText(n) ==
    IF n < 10 THEN <<digit(n)>> ELSE <<digit(n \div 10), digit(n % 10)>>

ErrorTraces == {i \in LogEvents : events[i].method = "error"}

\* C13: in one call of safe_run the command string is traced at debug level
\* before subprocess.run; the exit code is traced at debug level after it
\* exactly when the call returns a result; exactly one error-level trace
\* follows it exactly when the process is not created or exits non-zero under
\* check=True; a call the policy rejects traces nothing and spawns nothing.
C13_TraceOrder ==
    call.fn = "safe_run"
        => /\ \A i \in RunEvents :
                  /\ i = 2
                  /\ events[1] = LogEvent("debug", s_Executing \o CommandText)
                  /\ Len(events) = 3
                  /\ events[3].kind = "log"
                  /\ (outcome.kind = "returned"
                         <=> /\ events[i].proc.spawned
                             /\ events[3] =
                                    LogEvent("debug",
                                             s_Completed
                                                 \o ExitText(events[i].proc.returncode)))
                  /\ (events[3].method = "error"
                         <=> \/ ~events[i].proc.spawned
                             \/ events[i].proc.returncode # 0 /\ call.check)
                  /\ (events[3].method = "error" <=> outcome.kind = "raised")
           /\ Cardinality(RunEvents) <= 1
           /\ Cardinality(ErrorTraces) <= 1
           /\ RunEvents = {} => events = <<>>
           /\ Raised("PermissionError") => events = <<>>

\* C13 witness: a command exited non-zero under check=True, and the call left
\* the debug trace, the run and one error trace, in that order
C13_Witness ==
    /\ call.fn = "safe_run" /\ call.check
    /\ Len(events) = 3
    /\ events[1].kind = "log" /\ events[1].method = "debug"
    /\ events[2].kind = "subprocess.run"
    /\ events[2].proc.spawned /\ events[2].proc.returncode # 0
    /\ events[3].kind = "log" /\ events[3].method = "error"
    /\ Raised("CalledProcessError")

\* sub occurs in s
Contains(s, sub) ==
    \E i \in 1..(Len(s) - Len(sub) + 1) : SubSeq(s, i, i + Len(sub) - 1) = sub

\* The name of the command of the last call: the first token of a string, the
\* first element of an argument vector (empty when there is none)
CommandName ==
    IF call.cmd.type = "str"
    THEN IF split(call.cmd.s) = <<>> THEN <<>> ELSE split(call.cmd.s)[1]
    ELSE IF call.cmd.argv = <<>> THEN <<>> ELSE call.cmd.argv[1]

\* C14: whenever safe_run rejects a command by policy, the message of the
\* PermissionError names the rejected command, in quotes, and both
\* ALLOW_SHELL and ALLOWED_SHELL_COMMANDS, for string-form and list-form
\* commands alike.
C14_MessageNamesCommand ==
    call.fn = "safe_run" /\ Raised("PermissionError")
        => /\ Contains(outcome.message, <<"A", "L", "L", "O", "W", "_", "S", "H", "E", "L", "L">>)
           /\ Contains(outcome.message, <<"A", "L", "L", "O", "W", "E", "D", "_", "S", "H", "E", "L", "L", "_", "C", "O", "M", "M", "A", "N", "D", "S">>)
           /\ Contains(outcome.message, <<"'">> \o CommandName \o <<"'">>)

\* C14, string-form commands only: the message names the first token, in
\* quotes, and both environment variables.
C14_StringFormMessage ==
    call.fn = "safe_run" /\ Raised("PermissionError") /\ call.cmd.type = "str"
        => C14_MessageNamesCommand

====
